---- MODULE Spec2Model ----
(***************************************************************************)
(* Model of finetune/encoding/sequence_encoder.py: the conversion between  *)
(* the character-offset ("indico") annotation format and the labeled       *)
(* substring ("finetune") format, and the association linker.              *)
(*                                                                         *)
(* Strings are sequences of one-character strings; Python's 0-based        *)
(* half-open offsets are kept, so text[s:e] is SubSeq(text, s + 1, e).     *)
(* A label set is a TLA+ set; the tuple the code builds from it has an     *)
(* arbitrary order.  One document is modelled: both conversions treat the  *)
(* documents of a call independently.                                      *)
(***************************************************************************)
EXTENDS Integers, Sequences, FiniteSets, TLC

\* ---------------------------------------------------------------- bounds
\* size of a document given to indico_to_finetune_sequence: the characters
\* of its text plus the number of its annotations
MaxSize == 5
\* size of a document given to finetune_to_indico_sequence: the characters
\* of its text plus the number of its substrings
MaxF2ISize == 4
\* longest text taken through both conversions
MaxRoundTripLen == 3
\* size of a document given to assign_associations: its substrings plus
\* its candidate tuples
MaxAssocSize == 4
\* finetune_to_indico_sequence with associations: characters of the raw text
\* plus substrings plus association tuples
MaxF2IAssocSize == 4

\* ---------------------------------------------------------------- values
\* the caller-supplied none_value
none_value == "none"
\* category labels of input annotations
Labels == {"X", "Y"}
\* characters of the documents given to indico_to_finetune_sequence: the
\* k-th character of every document is Letters[k], so each position holds a
\* different character
Letters == <<"a", "b", "c", "d", "e", "f">>

VARIABLES
    pc,                  \* position in the running call
    \* indico_to_finetune_sequence, one document
    text,                \* the document's raw text
    labels,              \* the document's annotations, as the caller gave them
    multi_label,         \* the multi_label argument
    queue,               \* worklist of the merge loop
    merged_annotations,  \* spans whose conflicts are resolved
    all_annotations,     \* merged spans plus none-labeled gaps
    outcome,             \* "running", "ok" or the exception the call raised
                         \* (doc_subseqs and doc_labels are read off all_annotations)
    \* finetune_to_indico_sequence, one document
    raw_text,            \* the document's raw text
    doc_seq,             \* its substrings
    label_seq,           \* their labels: [tuple |-> isinstance(raw_label, tuple), labels |-> <<...>>]
    spacy_tokens,        \* NLP(raw_text): the word tokens, [start, end]
    subtoken_predictions,\* the subtoken_predictions argument
    associations_seq,    \* assoc_cleaned[doc_idx]: [given |-> associations is not None, map |-> dict]
    i,                   \* number of substrings processed
    start_idx,           \* snapping cursor into spacy_token_starts
    end_idx,             \* snapping cursor into spacy_token_ends
    raw_annotation_start,\* search cursor into raw_text
    doc_annotations,     \* annotations emitted so far
    annotation_ranges,   \* (start, end, label) of the emitted annotations
    log,                 \* per (substring, label) candidate: the match found and the span emitted
    raised,              \* "no" or the exception the call raised
    annotations,         \* the returned annotations of the document
    \* assign_associations, one document
    assoc_labels,        \* the document's labels, one per substring
    assoc_input,         \* per substring, its (bpe_idx, candidate_idx, candidate_label, candidate_prob)
    all_candidates,      \* the returned dict: active label index -> (index, label, prob)
    assoc_raised         \* "no" or the exception the call raised

i2fvars == <<text, labels, multi_label, queue, merged_annotations, all_annotations, outcome>>
f2ivars == <<raw_text, doc_seq, label_seq, spacy_tokens, subtoken_predictions, associations_seq,
             i, start_idx, end_idx, raw_annotation_start, doc_annotations, annotation_ranges,
             log, raised, annotations>>
assocvars == <<assoc_labels, assoc_input, all_candidates, assoc_raised>>
vars == <<pc, i2fvars, f2ivars, assocvars>>

\* ---------------------------------------------------------------- helpers
Min(S) == CHOOSE x \in S : \A y \in S : x <= y
Max(S) == CHOOSE x \in S : \A y \in S : x >= y

\* Python text[s:e] for 0 <= s, e <= len(text)
Slice(t, s, e) == SubSeq(t, s + 1, e)

\* the sequences over S of length at most n
SeqsUpTo(S, n) == UNION {[1..k -> S] : k \in 0..n}

RECURSIVE Concat(_)
Concat(ss) == IF ss = <<>> THEN <<>> ELSE Head(ss) \o Concat(Tail(ss))

\* insertion of x after every element whose start is <= x.start (stable)
RECURSIVE InsertByStart(_, _)
InsertByStart(sorted, x) ==
    IF sorted = <<>> THEN <<x>>
    ELSE IF Head(sorted).start <= x.start
         THEN <<Head(sorted)>> \o InsertByStart(Tail(sorted), x)
         ELSE <<x>> \o sorted

\* sorted(annotations, key=start): Python's sort is stable
RECURSIVE sort_by_start(_)
sort_by_start(anns) ==
    IF anns = <<>> THEN <<>>
    ELSE InsertByStart(sort_by_start(SubSeq(anns, 1, Len(anns) - 1)), anns[Len(anns)])

\* list.remove(x): drops the first element equal to x
RECURSIVE Remove(_, _)
Remove(list, x) ==
    IF list = <<>> THEN <<>>
    ELSE IF Head(list) = x THEN Tail(list)
         ELSE <<Head(list)>> \o Remove(Tail(list), x)

\* ------------------------------------------------- interval merge engine
overlap(current_annotation, annotation) ==
    \/ (current_annotation.start < annotation.end /\ annotation.end <= current_annotation.end)
    \/ (annotation.start < current_annotation.end /\ current_annotation.end <= annotation.end)

\* overlap_handler with the last chunk always labeled as the second span
overlap_handler_second_label(current_annotation, annotation, t) ==
    LET cfirst == current_annotation.start <= annotation.start
        first  == IF cfirst THEN current_annotation ELSE annotation
        second == IF cfirst THEN annotation ELSE current_annotation
        final_delimiter == Min({first.end, second.end})
        end == Max({first.end, second.end})
    IN <<[start |-> first.start, end |-> second.start, label |-> first.label,
          text |-> Slice(t, first.start, second.start)],
         [start |-> second.start, end |-> final_delimiter,
          label |-> first.label \cup second.label,
          text |-> Slice(t, second.start, final_delimiter)],
         [start |-> final_delimiter, end |-> end, label |-> second.label,
          text |-> Slice(t, final_delimiter, end)]>>

\* overlap_handler with the last chunk starting where the second span starts,
\* so that it repeats the overlap
overlap_handler_repeated_overlap(current_annotation, annotation, t) ==
    LET cfirst == current_annotation.start <= annotation.start
        first  == IF cfirst THEN current_annotation ELSE annotation
        second == IF cfirst THEN annotation ELSE current_annotation
        final_delimiter == Min({first.end, second.end})
        final_label == IF second.end > first.end THEN second.label ELSE first.label
        end == Max({first.end, second.end})
    IN <<[start |-> first.start, end |-> second.start, label |-> first.label,
          text |-> Slice(t, first.start, second.start)],
         [start |-> second.start, end |-> final_delimiter,
          label |-> first.label \cup second.label,
          text |-> Slice(t, second.start, final_delimiter)],
         [start |-> second.start, end |-> end, label |-> final_label,
          text |-> Slice(t, second.start, end)]>>

\* overlap_handler with the overlap labeled by the second span alone, so that
\* the first span's label is lost on the shared positions
overlap_handler_overlap_loses_label(current_annotation, annotation, t) ==
    LET cfirst == current_annotation.start <= annotation.start
        first  == IF cfirst THEN current_annotation ELSE annotation
        second == IF cfirst THEN annotation ELSE current_annotation
        final_delimiter == Min({first.end, second.end})
        end == Max({first.end, second.end})
    IN <<[start |-> first.start, end |-> second.start, label |-> first.label,
          text |-> Slice(t, first.start, second.start)],
         [start |-> second.start, end |-> final_delimiter, label |-> second.label,
          text |-> Slice(t, second.start, final_delimiter)],
         [start |-> final_delimiter, end |-> end,
          label |-> IF second.end > first.end THEN second.label ELSE first.label,
          text |-> Slice(t, final_delimiter, end)]>>

overlap_handler(current_annotation, annotation, t) ==
    LET cfirst == current_annotation.start <= annotation.start
        first  == IF cfirst THEN current_annotation ELSE annotation
        second == IF cfirst THEN annotation ELSE current_annotation
        final_delimiter == Min({first.end, second.end})
        final_label == IF second.end > first.end THEN second.label ELSE first.label
        end == Max({first.end, second.end})
        first_chunk  == [start |-> first.start, end |-> second.start,
                         label |-> first.label,
                         text |-> Slice(t, first.start, second.start)]
        second_chunk == [start |-> second.start, end |-> final_delimiter,
                         label |-> first.label \cup second.label,
                         text |-> Slice(t, second.start, final_delimiter)]
        third_chunk  == [start |-> final_delimiter, end |-> end,
                         label |-> final_label,
                         text |-> Slice(t, final_delimiter, end)]
    IN <<first_chunk, second_chunk, third_chunk>>

\* the queue the loop starts from: the annotations sorted by start, each
\* label wrapped in a set
InitialQueue(anns) ==
    LET sorted == sort_by_start(anns)
    IN [k \in 1..Len(sorted) |->
          [start |-> sorted[k].start, end |-> sorted[k].end,
           label |-> {sorted[k].label}, text |-> sorted[k].text]]

\* the iteration without the check for a degenerate annotation
MergeIterationKeepsDegenerate(q, merged, t) ==
    LET current_annotation == Head(q)
        rest == Tail(q)
        scan == sort_by_start(merged)
        stops == {k \in 1..Len(scan) :
                    \/ scan[k].start > current_annotation.end
                    \/ overlap(current_annotation, scan[k])}
    IN IF stops = {}
       THEN [queue |-> rest, merged |-> Append(merged, current_annotation)]
       ELSE LET annotation == scan[Min(stops)]
            IN IF annotation.start > current_annotation.end
               THEN [queue |-> rest, merged |-> Append(merged, current_annotation)]
               ELSE [queue |-> overlap_handler(current_annotation, annotation, t) \o rest,
                     merged |-> Remove(merged, annotation)]

\* one iteration of `while len(queue)`
MergeIteration(q, merged, t) ==
    LET current_annotation == Head(q)
        rest == Tail(q)
        scan == sort_by_start(merged)
        \* the scan stops at the first merged span that starts past the
        \* popped span or overlaps it
        stops == {k \in 1..Len(scan) :
                    \/ scan[k].start > current_annotation.end
                    \/ overlap(current_annotation, scan[k])}
    IN IF current_annotation.start = current_annotation.end
       THEN [queue |-> rest, merged |-> merged]
       ELSE IF stops = {}
       THEN [queue |-> rest, merged |-> Append(merged, current_annotation)]
       ELSE LET annotation == scan[Min(stops)]
            IN IF annotation.start > current_annotation.end
               THEN [queue |-> rest, merged |-> Append(merged, current_annotation)]
               ELSE [queue |-> overlap_handler(current_annotation, annotation, t) \o rest,
                     merged |-> Remove(merged, annotation)]

\* ------------------------------------------------------------ gap filler
NoneSpan(t, s, e) ==
    [start |-> s, end |-> e, label |-> {none_value}, text |-> Slice(t, s, e)]

\* the loop over the sorted merged spans: a none span before each span that
\* starts after current_idx
RECURSIVE FillGaps(_, _, _)
FillGaps(merged, current_idx, t) ==
    IF merged = <<>> THEN <<>>
    ELSE LET annotation == Head(merged)
         IN (IF annotation.start > current_idx
             THEN <<NoneSpan(t, current_idx, annotation.start)>>
             ELSE <<>>)
            \o <<annotation>>
            \o FillGaps(Tail(merged), annotation.end, t)

\* "Add span for the rest of the document"; max() of no span raises
\* ValueError before anything is appended
AddTrailing(anns, t) ==
    LET last_end == Max({anns[k].end : k \in 1..Len(anns)})
    IN IF last_end # Len(t) THEN Append(anns, NoneSpan(t, last_end, Len(t))) ELSE anns

\* the exception of the single-label branch: the loop visits the spans in
\* order, raises FinetuneError on a span with more than one label and
\* otherwise evaluates annotation[0], a KeyError on a dict
FlattenOutcome(anns) ==
    IF anns = <<>> THEN "ok"
    ELSE IF Cardinality(anns[1].label) > 1 THEN "FinetuneError" ELSE "KeyError"

\* everything after the merge loop: [all_annotations, outcome]
GapFillAndFlatten(merged, t, multi) ==
    LET filled == FillGaps(sort_by_start(merged), 0, t)
    IN IF filled = <<>>
       THEN [all_annotations |-> <<>>, outcome |-> "ValueError"]
       ELSE LET all == AddTrailing(filled, t)
            IN [all_annotations |-> all,
                outcome |-> IF multi THEN "ok" ELSE FlattenOutcome(all)]

doc_subseqs == [k \in 1..Len(all_annotations) |-> all_annotations[k].text]
doc_labels  == [k \in 1..Len(all_annotations) |-> all_annotations[k].label]

\* ---------------------------------------------------------------- inputs
\* an annotation of a document: 0 <= start <= end <= len(text), one label,
\* and the text field holding the characters it spans
InputAnnotations(t) ==
    {[start |-> p[1], end |-> p[2], label |-> l, text |-> Slice(t, p[1], p[2])] :
        p \in {q \in (0..Len(t)) \X (0..Len(t)) : q[1] <= q[2]}, l \in Labels}

\* the documents given to indico_to_finetune_sequence
I2FTexts == {SubSeq(Letters, 1, n) : n \in 0..MaxSize}

\* ------------------------------------------- indico_to_finetune_sequence
InitI2F ==
    /\ text = <<>>
    /\ labels = <<>>
    /\ multi_label = TRUE
    /\ queue = <<>>
    /\ merged_annotations = <<>>
    /\ all_annotations = <<>>
    /\ outcome = "running"

\* the call on one document, up to the merge loop: the annotations are
\* sorted by start into the queue
CallI2F ==
    /\ pc = "start"
    /\ \E t \in I2FTexts :
       \E ls \in SeqsUpTo(InputAnnotations(t), MaxSize - Len(t)) :
          /\ text' = t
          /\ labels' = ls
          /\ queue' = InitialQueue(ls)
    /\ multi_label' \in BOOLEAN
    /\ pc' = "merge"
    /\ UNCHANGED <<merged_annotations, all_annotations, outcome, f2ivars, assocvars>>

\* one pass of the body of `while len(queue)`
MergeStep ==
    /\ pc = "merge"
    /\ queue # <<>>
    /\ LET r == MergeIteration(queue, merged_annotations, text)
       IN /\ queue' = r.queue
          /\ merged_annotations' = r.merged
    /\ UNCHANGED <<pc, text, labels, multi_label, all_annotations, outcome, f2ivars, assocvars>>

\* the queue is empty: sort, fill the gaps, flatten, return or raise
FinishI2F ==
    /\ pc = "merge"
    /\ queue = <<>>
    /\ LET r == GapFillAndFlatten(merged_annotations, text, multi_label)
       IN /\ all_annotations' = r.all_annotations
          /\ outcome' = r.outcome
    /\ merged_annotations' = sort_by_start(merged_annotations)
    /\ pc' = "done"
    /\ UNCHANGED <<text, labels, multi_label, queue, f2ivars, assocvars>>

\* ------------------------------------------- finetune_to_indico_sequence
\* characters of the documents given to finetune_to_indico_sequence
Alphabet == {"a", " "}
\* a predicted substring that occurs in no document
Absent == <<"z">>

IsSpace(c) == c = " "

\* str.strip()
RECURSIVE LStrip(_)
LStrip(str) == IF str # <<>> /\ IsSpace(Head(str)) THEN LStrip(Tail(str)) ELSE str
RECURSIVE RStrip(_)
RStrip(str) ==
    IF str # <<>> /\ IsSpace(str[Len(str)]) THEN RStrip(SubSeq(str, 1, Len(str) - 1)) ELSE str
Strip(str) == RStrip(LStrip(str))

\* str.find(sub, start): the lowest index >= start where sub occurs, or -1;
\* a negative start counts from the end of the string
PyFind(t, sub, start) ==
    LET from == IF start >= 0 THEN start
                ELSE IF start + Len(t) >= 0 THEN start + Len(t) ELSE 0
        hits == {k \in from .. (Len(t) - Len(sub)) : Slice(t, k, k + Len(sub)) = sub}
    IN IF hits = {} THEN -1 ELSE Min(hits)

\* the word tokenizer: the tokens are runs of non-space characters; a run
\* may be cut further (punctuation), so every set of cuts inside the runs is
\* a possible tokenization
TokensOfCuts(t, cuts) ==
    LET n == Len(t)
        IsStart(p) == /\ ~IsSpace(t[p + 1])
                      /\ (p = 0 \/ IsSpace(t[p]) \/ p \in cuts)
        IsEnd(p)   == /\ ~IsSpace(t[p])
                      /\ (p = n \/ IsSpace(t[p + 1]) \/ p \in cuts)
        starts == {p \in 0 .. (n - 1) : IsStart(p)}
        EndOf(p) == Min({e \in (p + 1) .. n : IsEnd(e)})
        RECURSIVE Build(_)
        Build(ps) == IF ps = {} THEN <<>>
                     ELSE LET p == Min(ps)
                          IN <<[start |-> p, end |-> EndOf(p)]>> \o Build(ps \ {p})
    IN Build(starts)

Tokenizations(t) ==
    LET inner == {p \in 1 .. (Len(t) - 1) : ~IsSpace(t[p]) /\ ~IsSpace(t[p + 1])}
    IN {TokensOfCuts(t, cuts) : cuts \in SUBSET inner}

\* list[index] with Python's negative indices; the caller checks the range
PyIndex(list, index) == IF index >= 0 THEN list[index + 1] ELSE list[Len(list) + index + 1]
InRange(list, index) == -Len(list) <= index /\ index < Len(list)

\* the state the loops of one document carry from candidate to candidate
LoopState ==
    [start_idx |-> start_idx, end_idx |-> end_idx,
     raw_annotation_start |-> raw_annotation_start,
     doc_annotations |-> doc_annotations, annotation_ranges |-> annotation_ranges,
     log |-> log, raised |-> raised]

InitialLoopState ==
    [start_idx |-> 0, end_idx |-> 0, raw_annotation_start |-> 0,
     doc_annotations |-> <<>>, annotation_ranges |-> {}, log |-> <<>>, raised |-> "no"]

\* the arguments of the call that the loops read
Document ==
    [raw_text |-> raw_text, spacy_tokens |-> spacy_tokens,
     subtoken_predictions |-> subtoken_predictions, associations_seq |-> associations_seq]

\* `while start_idx < n_spacy_tokens and annotation_start >= spacy_token_starts[start_idx]`
AdvanceStartIdx(tokens, idx, annotation_start) ==
    Min({k \in idx .. Len(tokens) :
            k = Len(tokens) \/ annotation_start < tokens[k + 1].start})

\* `while end_idx < (n_spacy_tokens - 1) and annotation_end > spacy_token_ends[end_idx]`
AdvanceEndIdx(tokens, idx, annotation_end) ==
    IF idx >= Len(tokens) - 1 THEN idx
    ELSE Min({k \in idx .. (Len(tokens) - 1) :
                k = Len(tokens) - 1 \/ annotation_end <= tokens[k + 1].end})

\* the body of `for label in label_list` for one label of one substring
Candidate(doc, st, sub_str, label, multi) ==
    LET stripped_text == Strip(sub_str)
        found == PyFind(doc.raw_text, stripped_text, st.raw_annotation_start)
        raw_annotation_end == found + Len(stripped_text)
        snap == ~doc.subtoken_predictions
        s0 == IF snap /\ multi THEN 0 ELSE st.start_idx
        e0 == IF snap /\ multi THEN 0 ELSE st.end_idx
        round == snap /\ label # none_value
        s1 == IF round THEN AdvanceStartIdx(doc.spacy_tokens, s0, found) ELSE s0
        e1 == IF round THEN AdvanceEndIdx(doc.spacy_tokens, e0, raw_annotation_end) ELSE e0
        annotation_start == IF round THEN PyIndex(doc.spacy_tokens, s1 - 1).start ELSE found
        annotation_end == IF round THEN PyIndex(doc.spacy_tokens, e1).end ELSE raw_annotation_end
        n == Len(st.doc_annotations)
        annotation ==
            [start |-> annotation_start, end |-> annotation_end, label |-> label,
             text |-> Slice(doc.raw_text, annotation_start, annotation_end),
             associations |-> IF doc.associations_seq.given /\ n \in DOMAIN doc.associations_seq.map
                              THEN doc.associations_seq.map[n] ELSE <<>>]
        key == <<annotation_start, annotation_end, label>>
        fresh == key \notin st.annotation_ranges
    IN IF st.raised # "no" THEN st
       ELSE IF found = -1
       THEN [st EXCEPT !.raw_annotation_start = -1,
                       !.log = Append(@, [sub_str |-> sub_str, label |-> label, found |-> FALSE,
                                          match_start |-> -1, match_end |-> -1,
                                          emitted |-> FALSE, start |-> -1, end |-> -1])]
       ELSE IF round /\ (~InRange(doc.spacy_tokens, s1 - 1) \/ ~InRange(doc.spacy_tokens, e1))
       THEN [st EXCEPT !.raw_annotation_start = found, !.raised = "IndexError"]
       ELSE [start_idx |-> s1, end_idx |-> e1, raw_annotation_start |-> found,
             doc_annotations |-> IF label # none_value /\ fresh
                                 THEN Append(st.doc_annotations, annotation)
                                 ELSE st.doc_annotations,
             annotation_ranges |-> IF label # none_value
                                   THEN st.annotation_ranges \cup {key}
                                   ELSE st.annotation_ranges,
             log |-> Append(st.log, [sub_str |-> sub_str, label |-> label, found |-> TRUE,
                                     match_start |-> found, match_end |-> raw_annotation_end,
                                     emitted |-> label # none_value /\ fresh,
                                     start |-> annotation_start, end |-> annotation_end]),
             raised |-> "no"]

\* `for label in label_list`
RECURSIVE LabelLoop(_, _, _, _, _)
LabelLoop(doc, st, sub_str, label_list, multi) ==
    IF label_list = <<>> THEN st
    ELSE LabelLoop(doc, Candidate(doc, st, sub_str, Head(label_list), multi),
                   sub_str, Tail(label_list), multi)

\* the body of the loop over (sub_str, raw_label)
Substring(doc, st, sub_str, raw_label) ==
    LabelLoop(doc, st, sub_str, raw_label.labels, raw_label.tuple)

\* the loop over the substrings of a document, from a given state
RECURSIVE SubstringLoop(_, _, _, _)
SubstringLoop(doc, st, subs, raw_labels) ==
    IF subs = <<>> \/ raw_labels = <<>> THEN st
    ELSE SubstringLoop(doc, Substring(doc, st, Head(subs), Head(raw_labels)),
                       Tail(subs), Tail(raw_labels))

\* the call on one document, as a function of its arguments
finetune_to_indico_sequence(doc, subs, raw_labels) ==
    LET st == SubstringLoop(doc, InitialLoopState, subs, raw_labels)
    IN [raised |-> st.raised,
        annotations |-> IF st.raised = "no" THEN sort_by_start(st.doc_annotations) ELSE <<>>,
        log |-> st.log]

\* the labels a substring can come with: a plain label, or a tuple of labels
PlainLabel(l) == [tuple |-> FALSE, labels |-> <<l>>]
TupleLabel(ls) == [tuple |-> TRUE, labels |-> ls]
RawLabels == {PlainLabel(none_value), PlainLabel("X"), PlainLabel("Y"), TupleLabel(<<"X", "Y">>)}

\* the substrings a prediction can hold: pieces of the raw text, and one
\* string that is not in it
Substrings(t) == {Slice(t, s, e) : s \in 0..Len(t), e \in 0..Len(t)} \cup {Absent}

F2ITexts(n) == UNION {[1..k -> Alphabet] : k \in 0..n}

NoAssociations == [given |-> FALSE, map |-> <<>>]

InitF2I ==
    /\ raw_text = <<>>
    /\ doc_seq = <<>>
    /\ label_seq = <<>>
    /\ spacy_tokens = <<>>
    /\ subtoken_predictions = FALSE
    /\ associations_seq = NoAssociations
    /\ i = 0
    /\ start_idx = 0
    /\ end_idx = 0
    /\ raw_annotation_start = 0
    /\ doc_annotations = <<>>
    /\ annotation_ranges = {}
    /\ log = <<>>
    /\ raised = "no"
    /\ annotations = <<>>

\* the call on one document, up to the loop over its substrings
EnterF2I(t, subs, raw_labels, tokens, subtoken, assoc) ==
    /\ raw_text' = t
    /\ doc_seq' = subs
    /\ label_seq' = raw_labels
    /\ spacy_tokens' = tokens
    /\ subtoken_predictions' = subtoken
    /\ associations_seq' = assoc
    /\ i' = 0
    /\ start_idx' = 0
    /\ end_idx' = 0
    /\ raw_annotation_start' = 0
    /\ doc_annotations' = <<>>
    /\ annotation_ranges' = {}
    /\ log' = <<>>
    /\ raised' = "no"
    /\ annotations' = <<>>
    /\ pc' = "f2i"

CallF2I ==
    /\ pc = "start"
    /\ \E t \in F2ITexts(MaxF2ISize) :
       \E n \in 0 .. (MaxF2ISize - Len(t)) :
       \E subs \in [1..n -> Substrings(t)] :
       \E raw_labels \in [1..n -> RawLabels] :
       \E tokens \in Tokenizations(t) :
       \E subtoken \in BOOLEAN :
          EnterF2I(t, subs, raw_labels, tokens, subtoken, NoAssociations)
    /\ UNCHANGED <<i2fvars, assocvars>>

\* one pass of the loop over (sub_str, raw_label): every label of the substring
F2IStep ==
    /\ pc = "f2i"
    /\ raised = "no"
    /\ i < Len(doc_seq)
    /\ LET st == Substring(Document, LoopState, doc_seq[i + 1], label_seq[i + 1])
       IN /\ start_idx' = st.start_idx
          /\ end_idx' = st.end_idx
          /\ raw_annotation_start' = st.raw_annotation_start
          /\ doc_annotations' = st.doc_annotations
          /\ annotation_ranges' = st.annotation_ranges
          /\ log' = st.log
          /\ raised' = st.raised
    /\ i' = i + 1
    /\ UNCHANGED <<pc, raw_text, doc_seq, label_seq, spacy_tokens, subtoken_predictions,
                   associations_seq, annotations, i2fvars, assocvars>>

\* the loop is over, or an exception left it: sort by start and return
FinishF2I ==
    /\ pc = "f2i"
    /\ (raised # "no" \/ i = Len(doc_seq))
    /\ annotations' = IF raised = "no" THEN sort_by_start(doc_annotations) ELSE <<>>
    /\ pc' = "f2i_done"
    /\ UNCHANGED <<raw_text, doc_seq, label_seq, spacy_tokens, subtoken_predictions,
                   associations_seq, i, start_idx, end_idx, raw_annotation_start,
                   doc_annotations, annotation_ranges, log, raised, i2fvars, assocvars>>

\* ----------------------------------------------------- assign_associations
\* relationship labels of candidate associations
Relationships == {"R"}

\* active_label_idx of the k-th label: the non-none labels before it
ActiveLabelIdx(ls, k) == Cardinality({j \in 1..k : ls[j] # none_value}) - 1

RECURSIVE Flatten(_)
Flatten(lists) == IF lists = <<>> THEN <<>> ELSE Head(lists) \o Flatten(Tail(lists))

\* the first loop: idx_lookups[i][bpe_idx] = active_label_idx for the tuples
\* of the non-none labels; a later write replaces an earlier one
IdxLookup(ls, assoc) ==
    LET n == IF Len(ls) <= Len(assoc) THEN Len(ls) ELSE Len(assoc)
        Writers(b) == {k \in 1..n : /\ ls[k] # none_value
                                    /\ \E j \in 1..Len(assoc[k]) : assoc[k][j].bpe_idx = b}
        flat == Flatten(assoc)
        keys == {b \in {flat[j].bpe_idx : j \in 1..Len(flat)} : Writers(b) # {}}
    IN [b \in keys |-> ActiveLabelIdx(ls, Max(Writers(b)))]

\* max(v, key=prob): the first element with the largest probability
FirstMax(v) ==
    v[Min({j \in 1..Len(v) : \A m \in 1..Len(v) : v[j].prob >= v[m].prob})]

\* the second loop and the max: [raised, candidates]
assign_associations(ls, assoc) ==
    LET idx_lookup == IdxLookup(ls, assoc)
        flat == Flatten(assoc)
        Kept(tup) == /\ tup.candidate_label # none_value
                     /\ tup.candidate_idx \in DOMAIN idx_lookup
        kept == SelectSeq(flat, Kept)
        Of(k) == LET Mine(tup) == idx_lookup[tup.bpe_idx] = k
                     mine == SelectSeq(kept, Mine)
                 IN [j \in 1..Len(mine) |->
                        [index |-> idx_lookup[mine[j].candidate_idx],
                         label |-> mine[j].candidate_label,
                         prob |-> mine[j].candidate_prob]]
    IN IF \E j \in 1..Len(kept) : kept[j].bpe_idx \notin DOMAIN idx_lookup
       THEN [raised |-> "KeyError", candidates |-> <<>>]
       ELSE [raised |-> "no",
             candidates |->
                [k \in {idx_lookup[kept[j].bpe_idx] : j \in 1..Len(kept)} |-> FirstMax(Of(k))]]

\* the tuples of the tokens of a document with that many substrings: the
\* token of the p-th substring has bpe_idx p - 1
Probs == {1, 2, 3}
TokenTuples(n) ==
    [bpe_idx : 0 .. (n - 1), candidate_idx : 0 .. (n - 1),
     candidate_label : Relationships \cup {none_value}, candidate_prob : Probs]

\* the tuples of the p-th substring among tups, in their order
TuplesOf(tups, p) == LET At(tup) == tup.bpe_idx = p - 1 IN SelectSeq(tups, At)

InitAssoc ==
    /\ assoc_labels = <<>>
    /\ assoc_input = <<>>
    /\ all_candidates = <<>>
    /\ assoc_raised = "no"

\* the call on one document
CallAssign ==
    /\ pc = "start"
    /\ \E n \in 0..MaxAssocSize :
       \E ls \in [1..n -> {none_value, "X"}] :
       \E tups \in SeqsUpTo(TokenTuples(n), MaxAssocSize - n) :
          LET assoc == [p \in 1..n |-> TuplesOf(tups, p)]
              r == assign_associations(ls, assoc)
          IN /\ assoc_labels' = ls
             /\ assoc_input' = assoc
             /\ all_candidates' = r.candidates
             /\ assoc_raised' = r.raised
    /\ pc' = "assoc_done"
    /\ UNCHANGED <<i2fvars, f2ivars>>

\* ------------------------------------------------ indico -> finetune -> indico
\* the spans between consecutive boundaries b[1] < b[2] < ...
RECURSIVE SpansBetween(_, _, _)
SpansBetween(t, bounds, ls) ==
    IF Cardinality(bounds) < 2 THEN <<>>
    ELSE LET s == Min(bounds)
             e == Min(bounds \ {s})
         IN <<[start |-> s, end |-> e, label |-> Head(ls), text |-> Slice(t, s, e)]>>
            \o SpansBetween(t, bounds \ {s}, Tail(ls))

\* the annotation lists that are non-overlapping and cover the text: the
\* text cut at some positions, each piece with a label
Coverings(t) ==
    IF t = <<>> THEN {<<>>}
    ELSE UNION {{SpansBetween(t, {0, Len(t)} \cup cuts, ls) :
                    ls \in [1 .. (Cardinality(cuts) + 1) -> Labels]} :
                cuts \in SUBSET (1 .. (Len(t) - 1))}

\* tuple(list(label set)): the labels in some order
Orderings(S) == {f \in [1..Cardinality(S) -> S] : {f[k] : k \in 1..Cardinality(S)} = S}

\* the label tuples a list of label sets can be returned as
RECURSIVE LabelTuples(_)
LabelTuples(label_sets) ==
    IF label_sets = <<>> THEN {<<>>}
    ELSE {<<TupleLabel(o)>> \o rest :
            o \in Orderings(Head(label_sets)), rest \in LabelTuples(Tail(label_sets))}

CallRoundTrip ==
    /\ pc = "start"
    /\ \E t \in F2ITexts(MaxRoundTripLen) :
       \E ls \in Coverings(t) :
          /\ text' = t
          /\ labels' = ls
          /\ queue' = InitialQueue(ls)
    /\ multi_label' = TRUE
    /\ pc' = "merge"
    /\ UNCHANGED <<merged_annotations, all_annotations, outcome, f2ivars, assocvars>>

\* the substrings and label tuples indico_to_finetune_sequence returned are
\* given to finetune_to_indico_sequence with the same raw text
HandOver ==
    /\ pc = "done"
    /\ outcome = "ok"
    /\ \E raw_labels \in LabelTuples(doc_labels) :
       \E tokens \in Tokenizations(text) :
       \E subtoken \in BOOLEAN :
          EnterF2I(text, doc_subseqs, raw_labels, tokens, subtoken, NoAssociations)
    /\ UNCHANGED <<i2fvars, assocvars>>

\* ------------------------------ finetune_to_indico_sequence with associations
\* the labels of a document as assign_associations compares them with the
\* none-value: a plain label is itself, a tuple never equals the none-value
AssocLabels(raw_labels) ==
    [p \in 1..Len(raw_labels) |->
        IF raw_labels[p].tuple THEN "tuple" ELSE raw_labels[p].labels[1]]

\* the labels of the substrings of such a call: those of RawLabels, and the
\* tuple that holds the none-value alone
AssocRawLabels == RawLabels \cup {TupleLabel(<<none_value>>)}

\* the call with associations on one document: assign_associations resolves
\* them first (its exception leaves the call), then the per-document setup
CallF2IAssoc ==
    /\ pc = "start"
    /\ \E t \in F2ITexts(MaxF2IAssocSize) :
       \E n \in 0 .. (MaxF2IAssocSize - Len(t)) :
       \E subs \in [1..n -> Substrings(t)] :
       \E raw_labels \in [1..n -> AssocRawLabels] :
       \E tups \in SeqsUpTo(TokenTuples(n), MaxF2IAssocSize - Len(t) - n) :
       \E tokens \in Tokenizations(t) :
       \E subtoken \in BOOLEAN :
          LET assoc == [p \in 1..n |-> TuplesOf(tups, p)]
              r == assign_associations(AssocLabels(raw_labels), assoc)
          IN /\ assoc_labels' = AssocLabels(raw_labels)
             /\ assoc_input' = assoc
             /\ all_candidates' = r.candidates
             /\ assoc_raised' = r.raised
             /\ raw_text' = t
             /\ doc_seq' = subs
             /\ label_seq' = raw_labels
             /\ spacy_tokens' = tokens
             /\ subtoken_predictions' = subtoken
             /\ associations_seq' = [given |-> TRUE, map |-> r.candidates]
             /\ raised' = r.raised
    /\ i' = 0
    /\ start_idx' = 0
    /\ end_idx' = 0
    /\ raw_annotation_start' = 0
    /\ doc_annotations' = <<>>
    /\ annotation_ranges' = {}
    /\ log' = <<>>
    /\ annotations' = <<>>
    /\ pc' = "f2i"
    /\ UNCHANGED i2fvars


\* -------------------------------------------------------- specifications
Init == pc = "start" /\ InitI2F /\ InitF2I /\ InitAssoc

NextI2F == CallI2F \/ MergeStep \/ FinishI2F
SpecI2F == Init /\ [][NextI2F]_vars

NextF2I == CallF2I \/ F2IStep \/ FinishF2I
SpecF2I == Init /\ [][NextF2I]_vars

NextAssoc == CallAssign
SpecAssoc == Init /\ [][NextAssoc]_vars

NextRoundTrip == CallRoundTrip \/ MergeStep \/ FinishI2F \/ HandOver \/ F2IStep \/ FinishF2I
SpecRoundTrip == Init /\ [][NextRoundTrip]_vars

NextF2IAssoc == CallF2IAssoc \/ F2IStep \/ FinishF2I
SpecF2IAssoc == Init /\ [][NextF2IAssoc]_vars

\* the whole call on one document, as a function of its arguments: the merge
\* loop run until the queue is empty, then the gap filler and the flattening
RECURSIVE MergeLoop(_, _, _)
MergeLoop(q, merged, t) ==
    IF q = <<>> THEN merged
    ELSE LET r == MergeIteration(q, merged, t)
         IN MergeLoop(r.queue, r.merged, t)

indico_to_finetune_sequence(t, anns, multi) ==
    GapFillAndFlatten(MergeLoop(InitialQueue(anns), <<>>, t), t, multi)

\* ------------------------------------------------------------ properties
Returned == pc = "done" /\ outcome = "ok"

StartOrdered(anns) ==
    \A j, k \in 1..Len(anns) : j < k => anns[j].start <= anns[k].start

NonOverlapping(anns) ==
    \A j, k \in 1..Len(anns) :
        j # k => (anns[j].end <= anns[k].start \/ anns[k].end <= anns[j].start)

Covered(anns) == UNION {anns[k].start .. (anns[k].end - 1) : k \in 1..Len(anns)}

Partition(anns, t) ==
    /\ Concat([k \in 1..Len(anns) |-> anns[k].text]) = t
    /\ StartOrdered(anns)
    /\ NonOverlapping(anns)

\* C1 as stated: for every document the call returns substrings that
\* concatenate to the raw text, from spans that are start-ordered and pairwise
\* non-overlapping (multi-label mode, the default).
C1_PartitionEveryDocument ==
    (pc = "done" /\ multi_label) => (outcome = "ok" /\ Partition(all_annotations, text))

\* What the code does guarantee: whenever the call returns, its output is a
\* partition of the raw text.
PartitionWhenReturned == Returned => Partition(all_annotations, text)

\* C2 as stated: for every document, also one without (non-degenerate)
\* annotations, the call returns spans whose ranges together are exactly
\* [0, len(text)).
C2_CoverageEveryDocument ==
    (pc = "done" /\ multi_label) =>
        (outcome = "ok" /\ Covered(all_annotations) = 0 .. (Len(text) - 1))

\* What the code does guarantee: whenever the call returns, the spans cover
\* the text.
CoverageWhenReturned == Returned => Covered(all_annotations) = 0 .. (Len(text) - 1)

\* the pieces C3 names for two overlapping spans, empty ones left out, as
\* <<start, end, label set>>
ExpectedPieces(a, b) ==
    LET first  == IF a.start <= b.start THEN a ELSE b
        second == IF a.start <= b.start THEN b ELSE a
        cut    == IF first.end <= second.end THEN first.end ELSE second.end
        last   == IF first.end <= second.end THEN second.end ELSE first.end
        longer == IF first.end >= second.end THEN first ELSE second
    IN {p \in {<<first.start, second.start, {first.label}>>,
               <<second.start, cut, {first.label, second.label}>>,
               <<cut, last, {longer.label}>>} : p[1] < p[2]}

Triples(anns) == {<<anns[k].start, anns[k].end, anns[k].label>> : k \in 1..Len(anns)}

TwoOverlappingInputs ==
    /\ Len(labels) = 2
    /\ labels[1].start < labels[1].end
    /\ labels[2].start < labels[2].end
    /\ labels[1].start < labels[2].end
    /\ labels[2].start < labels[1].end

\* C3: two overlapping non-degenerate input spans are resolved into exactly
\* the non-empty pieces [first.start, second.start) -> first's label,
\* [second.start, min end) -> both labels, [min end, max end) -> the label of
\* the span with the larger end.
C3_TwoSpanResolution ==
    (pc = "done" /\ TwoOverlappingInputs) =>
        /\ Triples(merged_annotations) = ExpectedPieces(labels[1], labels[2])
        /\ Len(merged_annotations) = Cardinality(ExpectedPieces(labels[1], labels[2]))

\* C3's case: a containment of two differently labeled spans, resolved into
\* three pieces
C3_Witness ==
    /\ pc = "done"
    /\ TwoOverlappingInputs
    /\ labels[1].label # labels[2].label
    /\ Len(merged_annotations) = 3
    /\ \E k \in 1..3 : Cardinality(merged_annotations[k].label) = 2

\* C6 as stated: in single-label mode a resolved span with more than one
\* label makes the call raise FinetuneError, wherever that span lies.
C6_SingleLabelError ==
    (pc = "done" /\ ~multi_label
        /\ \E k \in 1..Len(all_annotations) : Cardinality(all_annotations[k].label) > 1)
    => outcome = "FinetuneError"

\* Without(s, k): the list s with its k-th element left out
Without(s, k) == SubSeq(s, 1, k - 1) \o SubSeq(s, k + 1, Len(s))

SameOutput(r) ==
    /\ r.outcome = outcome
    /\ [k \in 1..Len(r.all_annotations) |-> r.all_annotations[k].text] = doc_subseqs
    /\ [k \in 1..Len(r.all_annotations) |-> r.all_annotations[k].label] = doc_labels

\* C9: an annotation with start = end, whatever its label and place in the
\* list, changes nothing: the call's substrings and labels are those of the
\* call on the list without it.
C9_DegenerateSpan ==
    pc = "done" =>
        \A k \in 1..Len(labels) :
            labels[k].start = labels[k].end =>
                SameOutput(indico_to_finetune_sequence(text, Without(labels, k), multi_label))

\* C9's case: a returned call whose input held a degenerate span among
\* overlapping ones
C9_Witness ==
    /\ Returned
    /\ Len(labels) = 3
    /\ \E k \in 1..3 : labels[k].start = labels[k].end /\ labels[k].start = 1
    /\ \E k \in 1..Len(all_annotations) : Cardinality(all_annotations[k].label) = 2

\* total length of the spans still held by the queue and the merged list
RECURSIVE TotalLength(_)
TotalLength(anns) ==
    IF anns = <<>> THEN 0 ELSE (Head(anns).end - Head(anns).start) + TotalLength(Tail(anns))

\* C10: the merge worklist empties, no sequence of splits repeats forever:
\* every iteration of the loop decreases the pair (total length of the spans
\* in queue and merged list, queue length) in the lexicographic order of the
\* naturals, a split by shortening the total length, any other iteration by
\* shortening the queue.
C10_MergeTerminates ==
    [][(pc = "merge" /\ queue # <<>>) =>
        \/ TotalLength(queue' \o merged_annotations') < TotalLength(queue \o merged_annotations)
        \/ /\ TotalLength(queue' \o merged_annotations') = TotalLength(queue \o merged_annotations)
           /\ Len(queue') < Len(queue)]_vars

\* C10's case: a piece of a split is split again against a third span (the
\* queue holds pieces while a merged span is still there)
C10_Witness ==
    /\ pc = "merge"
    /\ Len(labels) = 3
    /\ queue # <<>>
    /\ \A k \in 1..Len(labels) : InitialQueue(labels)[k] # Head(queue)
    /\ Head(queue).start < Head(queue).end
    /\ \E k \in 1..Len(merged_annotations) : overlap(Head(queue), merged_annotations[k])

LabelTriples(anns) == [k \in 1..Len(anns) |-> <<anns[k].start, anns[k].end, anns[k].label>>]

\* C4 as stated: for non-overlapping, fully covering input annotations the
\* two conversions in turn return the (start, end, label) triples of the
\* input annotations, also when a substring text occurs more than once.
C4_RoundTrip ==
    pc = "f2i_done" =>
        /\ raised = "no"
        /\ LabelTriples(annotations) = LabelTriples(sort_by_start(labels))

F2IDone == pc = "f2i_done"

NotInText(sub_str) == PyFind(raw_text, Strip(sub_str), 0) = -1

\* C5 as stated: a substring that does not occur in the raw text yields no
\* annotation and no exception, and the other candidates of the document
\* yield what they yield when that substring is not in the sequence.
C5_NotFoundResilience ==
    F2IDone =>
        \A k \in 1..Len(doc_seq) :
            NotInText(doc_seq[k]) =>
                LET without == finetune_to_indico_sequence(
                                   Document, Without(doc_seq, k), Without(label_seq, k))
                IN /\ raised = without.raised
                   /\ LabelTriples(annotations) = LabelTriples(without.annotations)

TokenStarts == {spacy_tokens[k].start : k \in 1..Len(spacy_tokens)}
TokenEnds == {spacy_tokens[k].end : k \in 1..Len(spacy_tokens)}

\* C7 as stated: with whole-token snapping on, a candidate whose match
\* begins at a token start and ends at a token end is emitted with the
\* boundaries of the match, whatever was processed before it.
C7_SnappingIdempotence ==
    ~subtoken_predictions =>
        \A k \in 1..Len(log) :
            (/\ log[k].found
             /\ log[k].emitted
             /\ log[k].match_start < log[k].match_end
             /\ log[k].match_start \in TokenStarts
             /\ log[k].match_end \in TokenEnds)
            => (log[k].start = log[k].match_start /\ log[k].end = log[k].match_end)

\* the candidates C8 gives an active occurrence: the tuples of its substring,
\* in input order, whose label is not the none-value and whose target token
\* belongs to an active occurrence that is known (has a tuple of its own)
KnownToken(c) ==
    /\ c + 1 \in 1..Len(assoc_labels)
    /\ assoc_labels[c + 1] # none_value
    /\ assoc_input[c + 1] # <<>>

ValidCandidates(p) ==
    LET Valid(tup) == tup.candidate_label # none_value /\ KnownToken(tup.candidate_idx)
    IN SelectSeq(assoc_input[p], Valid)

Selected(p) ==
    LET v == ValidCandidates(p)
        best == CHOOSE j \in 1..Len(v) :
                    /\ \A m \in 1..Len(v) : v[m].candidate_prob <= v[j].candidate_prob
                    /\ \A m \in 1..(j - 1) : v[m].candidate_prob < v[j].candidate_prob
    IN [index |-> ActiveLabelIdx(assoc_labels, v[best].candidate_idx + 1),
        label |-> v[best].candidate_label,
        prob |-> v[best].candidate_prob]

SelectionHolds ==
    \A p \in 1..Len(assoc_labels) :
        assoc_labels[p] # none_value =>
            LET o == ActiveLabelIdx(assoc_labels, p)
            IN IF ValidCandidates(p) = <<>>
               THEN o \notin DOMAIN all_candidates
               ELSE o \in DOMAIN all_candidates /\ all_candidates[o] = Selected(p)

\* C8 as stated: every active label occurrence gets the first candidate of
\* maximum probability among its valid candidates, and no entry when it has
\* none.
C8_AssociationSelection ==
    pc = "assoc_done" => (assoc_raised = "no" /\ SelectionHolds)

\* What the code does guarantee: the selection holds whenever the call
\* returns.
SelectionWhenReturned ==
    (pc = "assoc_done" /\ assoc_raised = "no") => SelectionHolds

\* the value of raw_annotation_start before and after the k-th candidate of
\* the document: the cursor starts at 0 and every candidate assigns it the
\* result of find(), the start of the match or -1
CursorAfter(k) == log[k].match_start
CursorBefore(k) == IF k = 1 THEN 0 ELSE CursorAfter(k - 1)

\* C11 as stated: within one document the search cursor raw_annotation_start
\* never moves backward: after every candidate, found or not found, it is
\* greater than or equal to what it was before that candidate.
C11_CursorMonotone ==
    \A k \in 1..Len(log) : CursorAfter(k) >= CursorBefore(k)

\* What the code does guarantee: a candidate that is found never moves the
\* cursor backward.
CursorMonotoneWhenFound ==
    \A k \in 1..Len(log) : log[k].found => CursorAfter(k) >= CursorBefore(k)

\* The log tells the cursor: after the candidates processed so far the
\* variable raw_annotation_start holds the last logged match start.
CursorIsLogged ==
    (pc = "f2i" /\ raised = "no") =>
        raw_annotation_start = (IF log = <<>> THEN 0 ELSE CursorAfter(Len(log)))

\* the substring (1-based) each candidate of the document belongs to, in the
\* order the loops visit the candidates: one candidate per label of a tuple
CandidateOwners ==
    Flatten([p \in 1..Len(label_seq) |-> [j \in 1..Len(label_seq[p].labels) |-> p]])

\* the candidate the j-th emitted annotation was built from
EmittedFrom(j) ==
    CHOOSE k \in 1..Len(log) :
        /\ log[k].emitted
        /\ Cardinality({m \in 1..k : log[m].emitted}) = j

\* what assign_associations resolved for the active label occurrence of the
\* p-th substring; <<>> when it resolved nothing for it
ResolvedFor(p) ==
    LET o == ActiveLabelIdx(assoc_labels, p)
    IN IF o \in DOMAIN all_candidates THEN all_candidates[o] ELSE <<>>

\* C12 as stated: with associations supplied, every emitted annotation
\* carries the association that assign_associations resolved for the active
\* label occurrence (substring) it was built from, and none when nothing was
\* resolved for that occurrence; also after a dropped candidate and for the
\* labels of a tuple.
C12_AssociationAlignment ==
    associations_seq.given =>
        \A j \in 1..Len(doc_annotations) :
            doc_annotations[j].associations = ResolvedFor(CandidateOwners[EmittedFrom(j)])

\* What the code does guarantee: the j-th emitted annotation (counting from
\* 0) carries what was resolved for occurrence index j.
AttachedByEmittedCount ==
    associations_seq.given =>
        \A j \in 1..Len(doc_annotations) :
            doc_annotations[j].associations =
                (IF j - 1 \in DOMAIN all_candidates THEN all_candidates[j - 1] ELSE <<>>)

\* the labels of the input spans that cover character position p
InputLabelsAt(p) ==
    {labels[k].label : k \in {j \in 1..Len(labels) : labels[j].start <= p /\ p < labels[j].end}}

\* the merged spans that cover character position p
MergedAt(p) ==
    {k \in 1..Len(merged_annotations) :
        merged_annotations[k].start <= p /\ p < merged_annotations[k].end}

\* C13: for any number of input spans, a character position covered by an
\* input span lies in exactly one merged span, whose label set is the set of
\* the labels of all input spans covering the position; a position covered
\* by no input span lies in no merged span.
C13_PointwiseLabels ==
    pc = "done" =>
        \A p \in 0 .. (Len(text) - 1) :
            IF InputLabelsAt(p) = {}
            THEN MergedAt(p) = {}
            ELSE /\ Cardinality(MergedAt(p)) = 1
                 /\ \A k \in MergedAt(p) : merged_annotations[k].label = InputLabelsAt(p)

\* C13's case: three non-degenerate input spans that share a position, with
\* both labels among them, resolved into more than one merged span
C13_Witness ==
    /\ pc = "done"
    /\ Len(labels) = 3
    /\ \A k \in 1..3 : labels[k].start < labels[k].end
    /\ \E p \in 0 .. (Len(text) - 1) :
          /\ \A k \in 1..3 : labels[k].start <= p /\ p < labels[k].end
          /\ InputLabelsAt(p) = Labels
    /\ Len(merged_annotations) >= 2

====
